---- MODULE Spec2Model ----
(***************************************************************************)
(* Model of grid_display.py: class DecodeSecretMessage (url setter,        *)
(* verify_public_url, get_data, display_grid) and the driver Main.         *)
(*                                                                         *)
(* Text is modelled as a sequence of one-character strings, so strip(),    *)
(* int(), urlparse() and "".join() are computed character by character.    *)
(***************************************************************************)
EXTENDS Integers, Sequences, FiniteSets, TLC

VARIABLES
    phase,      \* "new" | "ready" (object constructed) | "ctor_raised"
    caller,     \* "Main" (the driver of lines 147-167) | "api" (any other caller)
    mainPc,     \* position of Main: "verify" | "get_data" | "display_grid" | "done"
    urlArg,     \* the value handed to DecodeSecretMessage(url)
    url,        \* self._url
    response,   \* self.response
    grid,       \* self.grid (None, or the DataFrame's rows in order)
    buf,        \* display_grid's local `grid` as it stood when the call ended
    out,        \* standard output, one entry per printed line
    outMark,    \* length of `out` when the last method call began
    exc,        \* exception that escaped the last call ("none" when it returned)
    lastCall,   \* the method called last
    verified,   \* what verify_public_url returned: "none" | "True" | "False"
    getLog,     \* the URLs an HTTP GET was issued for
    calls       \* number of method calls made so far

vars == <<phase, caller, mainPc, urlArg, url, response, grid, buf, out, outMark,
          exc, lastCall, verified, getLog, calls>>

----------------------------------------------------------------------------
(* Bounds of the model *)

MaxUrlLen == 4      \* tokens in a URL argument
MaxRows   == 3      \* data rows (after the header row) of a fetched table
MaxCalls  == 3      \* method calls an "api" caller makes on one object

----------------------------------------------------------------------------
(* Text helpers *)

RECURSIVE Flatten(_)
Flatten(ss) == IF ss = <<>> THEN <<>> ELSE Head(ss) \o Flatten(Tail(ss))

Whitespace == {" "}

RECURSIVE LStrip(_)
LStrip(s) == IF s # <<>> /\ Head(s) \in Whitespace THEN LStrip(Tail(s)) ELSE s

RECURSIVE RStrip(_)
RStrip(s) ==
    IF s # <<>> /\ s[Len(s)] \in Whitespace THEN RStrip(SubSeq(s, 1, Len(s) - 1)) ELSE s

\* str.strip()
Strip(s) == RStrip(LStrip(s))

\* str.isspace(): non-empty and every character is whitespace
IsSpace(s) == s # <<>> /\ \A i \in 1..Len(s) : s[i] \in Whitespace

Digits == {"0", "1", "2", "3", "4", "5", "6", "7", "8", "9"}

DigitVal(c) ==
    CASE c = "0" -> 0 [] c = "1" -> 1 [] c = "2" -> 2 [] c = "3" -> 3 [] c = "4" -> 4
      [] c = "5" -> 5 [] c = "6" -> 6 [] c = "7" -> 7 [] c = "8" -> 8 [] c = "9" -> 9

RECURSIVE DigitsVal(_)
DigitsVal(s) ==
    IF s = <<>> THEN 0 ELSE 10 * DigitsVal(SubSeq(s, 1, Len(s) - 1)) + DigitVal(s[Len(s)])

\* int(text): surrounding whitespace, an optional sign, then one or more digits;
\* anything else raises ValueError (ok = FALSE).
ParseInt(text) ==
    LET s    == Strip(text)
        sgn  == s # <<>> /\ Head(s) \in {"-", "+"}
        body == IF sgn THEN Tail(s) ELSE s
        good == body # <<>> /\ \A i \in 1..Len(body) : body[i] \in Digits
    IN  IF ~good THEN [ok |-> FALSE, val |-> 0]
        ELSE [ok |-> TRUE,
              val |-> IF sgn /\ Head(s) = "-" THEN 0 - DigitsVal(body) ELSE DigitsVal(body)]

----------------------------------------------------------------------------
(* URL values and urllib.parse.urlparse *)

T_https   == <<"h", "t", "t", "p", "s">>
T_http    == <<"h", "t", "t", "p">>
T_HTTPS   == <<"H", "T", "T", "P", "S">>
T_colon   == <<":">>
T_slashes == <<"/", "/">>
T_slash   == <<"/">>
T_space   == <<" ">>
T_google  == <<"d", "o", "c", "s", ".", "g", "o", "o", "g", "l", "e", ".", "c", "o", "m">>
T_example == <<"e", "x", "a", "m", "p", "l", "e", ".", "c", "o", "m">>
T_pub     == <<"p", "u", "b">>

UrlTokens == {T_https, T_http, T_HTTPS, T_colon, T_slashes, T_slash, T_space,
              T_google, T_example}

RECURSIVE SeqsUpTo(_, _)
SeqsUpTo(S, n) ==
    IF n = 0 THEN {<<>>}
    ELSE LET shorter == SeqsUpTo(S, n - 1)
         IN  shorter \cup {Append(s, e) : s \in {t \in shorter : Len(t) = n - 1}, e \in S}

\* A constructor argument: a non-string object, or a string (its characters).
NotAString == [isStr |-> FALSE, chars |-> <<>>]
StrVal(cs) == [isStr |-> TRUE, chars |-> cs]

UrlArgs == {NotAString} \cup {StrVal(Flatten(ts)) : ts \in SeqsUpTo(UrlTokens, MaxUrlLen)}

\* The URL Main is run with (line 150): https://docs.google.com/pub
MainUrl == StrVal(T_https \o T_colon \o T_slashes \o T_google \o T_slash \o T_pub)

UpperCase == {"H", "T", "P", "S"}
LowerCase == {"a", "c", "d", "e", "g", "h", "l", "m", "o", "p", "s", "t", "u", "b", "x"}
IsAlpha(c) == c \in UpperCase \cup LowerCase
SchemeChars == UpperCase \cup LowerCase \cup Digits \cup {"+", "-", "."}

Lower(c) ==
    CASE c = "H" -> "h" [] c = "T" -> "t" [] c = "P" -> "p" [] c = "S" -> "s"
      [] OTHER -> c

LowerStr(s) == [i \in 1..Len(s) |-> Lower(s[i])]

\* str.find(c): 0-based index of the first occurrence among `cs`, or -1
RECURSIVE FindAny(_, _, _)
FindAny(s, cs, from) ==
    IF from > Len(s) THEN -1
    ELSE IF s[from] \in cs THEN from - 1
    ELSE FindAny(s, cs, from + 1)

\* urlparse(url): the scheme and netloc fields of the result. As in current
\* CPython, leading spaces are dropped first, the scheme is what precedes the
\* first ":" when it starts with a letter and holds only scheme characters
\* (lower-cased), and the netloc is what follows "//" up to the next "/", "?"
\* or "#".
UrlParse(chars) ==
    LET u0  == LStrip(chars)
        i   == FindAny(u0, {":"}, 1)
        hasScheme ==
            /\ i > 0
            /\ IsAlpha(u0[1])
            /\ \A k \in 1..i : u0[k] \in SchemeChars
        scheme == IF hasScheme THEN LowerStr(SubSeq(u0, 1, i)) ELSE <<>>
        u1  == IF hasScheme THEN SubSeq(u0, i + 2, Len(u0)) ELSE u0
        hasNetloc == Len(u1) >= 2 /\ SubSeq(u1, 1, 2) = T_slashes
        d   == FindAny(u1, {"/", "?", "#"}, 3)
        netloc == IF ~hasNetloc THEN <<>>
                  ELSE IF d < 0 THEN SubSeq(u1, 3, Len(u1))
                  ELSE SubSeq(u1, 3, d)
    IN  [scheme |-> scheme, netloc |-> netloc]

\* A scheme check that was forgotten: only the host is compared.
UrlCheckHostOnly(arg) ==
    IF ~arg.isStr THEN "TypeError"
    ELSE IF IsSpace(arg.chars) THEN "ValueError"
    ELSE IF UrlParse(arg.chars).netloc # T_google THEN "ValueError"
    ELSE "none"

\* The url setter: the exception it raises, "none" when it stores the value.
UrlCheck(arg) ==
    IF ~arg.isStr THEN "TypeError"
    ELSE IF IsSpace(arg.chars) THEN "ValueError"
    ELSE IF UrlParse(arg.chars).scheme # T_https \/ UrlParse(arg.chars).netloc # T_google
         THEN "ValueError"
    ELSE "none"

----------------------------------------------------------------------------
(* Fetched documents: the markup, as BeautifulSoup sees it *)

\* One <tr>: the stripped-or-not text of each of its <td> cells, in order.
Row_0A0   == << <<"0">>, <<"A">>, <<"0">> >>
Row_1B0   == << <<" ", "1">>, <<"B", " ">>, <<"0">> >>          \* untrimmed cells
Row_0C1   == << <<"0">>, <<"C">>, <<"1">> >>
Row_neg   == << <<"-", "1">>, <<"E">>, <<"0">> >>               \* negative x
Row_badY  == << <<"0">>, <<"F">>, <<"y">> >>                    \* y is not an integer
Row_short == << <<"0">>, <<"G">> >>                             \* fewer than three cells
Row_empty == << <<"0">>, <<>>, <<"1">> >>                       \* empty character cell
Row_long  == << <<"0">>, <<"H", "I">>, <<"1">>, <<"k">> >>      \* two characters, a 4th cell

SampleRows == {Row_0A0, Row_1B0, Row_0C1, Row_neg, Row_badY, Row_short, Row_empty,
               Row_long}

\* The first <tr> of the table: a header of <th>/text cells, or one that happens
\* to hold numbers.
Header_text == << <<"x">>, <<"c">>, <<"y">> >>
Header_num  == << <<"1">>, <<"Z">>, <<"1">> >>
HeaderRows  == {Header_text, Header_num}

NoTableDoc == [hasTable |-> FALSE, rows |-> <<>>]
TableDoc(rows) == [hasTable |-> TRUE, rows |-> rows]

Docs ==
    {NoTableDoc, TableDoc(<<>>)}
      \cup {TableDoc(<<h>> \o d) : h \in HeaderRows, d \in SeqsUpTo(SampleRows, MaxRows)}

\* Bodies served with an error status (an error page, or a page that has a table)
ErrorDocs == {NoTableDoc, TableDoc(<<Header_text, Row_0A0>>)}

NoResponse == [isNone |-> TRUE]
Response(ok, doc) == [isNone |-> FALSE, ok |-> ok, doc |-> doc]

\* `is not None` in place of truthiness
ResponseNotNone(r) == ~r.isNone

\* bool(self.response): None is falsy, and requests.Response.__bool__ is `ok`
ResponseTruthy(r) == ~r.isNone /\ r.ok

----------------------------------------------------------------------------
(* Printed lines *)

Msg(t)  == [kind |-> "msg", text |-> t, chars |-> <<>>]
Line(cs) == [kind |-> "row", text |-> "", chars |-> cs]

MsgAccess     == Msg("Error accessing the URL: ...")
MsgNoResponse == Msg("No response found.")
MsgNoTable    == Msg("No table found in the document.")
MsgParse      == Msg("Error in parsing coordinates or character data.")
MsgNoData     == Msg("No data to display.")
MsgMainError  == Msg("Error: Failed to access the URL. Please check the URL and make sure it is public.")
MsgMainHint   == Msg("This might be due to a private or incorrect URL. Ensure the document is publicly accessible.")
MsgUnexpected == Msg("An unexpected error occurred while processing the document.")
MsgDetails    == Msg("Details: ...")

----------------------------------------------------------------------------
(* get_data *)

NoGrid == [isNone |-> TRUE]
DataFrame(triples) == [isNone |-> FALSE, triples |-> triples]

Triple(x, y, c) == [x |-> x, y |-> y, char |-> c]

\* for row in rows: every <tr>, the header included
AllRows(rows) == rows

\* for row in rows[1:]
DataRows(rows) == IF rows = <<>> THEN <<>> ELSE Tail(rows)

\* The body of the loop for one row: what is appended to grid_data and what is
\* printed.
ParseRow(cells) ==
    IF Len(cells) < 3 THEN [triples |-> <<>>, msgs |-> <<>>]
    ELSE LET px == ParseInt(Strip(cells[1]))
             py == ParseInt(Strip(cells[3]))
         IN  IF px.ok /\ py.ok
             THEN [triples |-> <<Triple(px.val, py.val, Strip(cells[2]))>>, msgs |-> <<>>]
             ELSE [triples |-> <<>>, msgs |-> <<MsgParse>>]

RECURSIVE ParseRows(_)
ParseRows(rows) ==
    IF rows = <<>> THEN [triples |-> <<>>, msgs |-> <<>>]
    ELSE LET h == ParseRow(Head(rows))
             t == ParseRows(Tail(rows))
         IN  [triples |-> h.triples \o t.triples, msgs |-> h.msgs \o t.msgs]

\* No table, but the code goes on to build the (empty) DataFrame
NoTableFallThrough(g, o) ==
    [grid |-> DataFrame(<<>>), out |-> Append(o, MsgNoTable)]

\* if not table: print(...); return
NoTableResult(g, o) == [grid |-> g, out |-> Append(o, MsgNoTable)]

\* get_data(): the new self.grid and standard output
GetData(resp, g, o) ==
    IF ~ResponseTruthy(resp) THEN [grid |-> g, out |-> Append(o, MsgNoResponse)]
    ELSE IF ~resp.doc.hasTable THEN NoTableResult(g, o)
    ELSE LET p == ParseRows(DataRows(resp.doc.rows))
         IN  [grid |-> DataFrame(p.triples), out |-> o \o p.msgs]

----------------------------------------------------------------------------
(* display_grid *)

NoBuf == <<>>

\* DataFrame column maximum of a non-empty column
RECURSIVE MaxOf(_)
MaxOf(ns) ==
    IF Len(ns) = 1 THEN ns[1]
    ELSE LET m == MaxOf(Tail(ns)) IN IF Head(ns) > m THEN Head(ns) ELSE m

ColX(ts) == [i \in 1..Len(ts) |-> ts[i].x]
ColY(ts) == [i \in 1..Len(ts) |-> ts[i].y]

Space == <<" ">>

\* range(n) has no element when n <= 0
RangeLen(n) == IF n > 0 THEN n ELSE 0

\* The dimensions exchanged: max_x + 1 rows of max_y + 1 cells
EmptyGridTransposed(max_x, max_y) ==
    [r \in 1..RangeLen(max_x + 1) |-> [c \in 1..RangeLen(max_y + 1) |-> Space]]

\* [[" " for _ in range(max_x + 1)] for _ in range(max_y + 1)]
EmptyGrid(max_x, max_y) ==
    [r \in 1..RangeLen(max_y + 1) |-> [c \in 1..RangeLen(max_x + 1) |-> Space]]

\* Python list indexing: the 1-based position that index i names in a list of
\* length n (a negative index counts from the end), 0 when it raises IndexError.
PyIndex(n, i) ==
    IF i >= 0 /\ i < n THEN i + 1
    ELSE IF i < 0 /\ 0 - i <= n THEN n + i + 1
    ELSE 0

\* grid[y][x] = char for each DataFrame row in order; ok = FALSE on IndexError
RECURSIVE FillGrid(_, _)
FillGrid(g, ts) ==
    IF ts = <<>> THEN [ok |-> TRUE, grid |-> g]
    ELSE LET t  == Head(ts)
             r  == PyIndex(Len(g), t.y)
             c  == IF r = 0 THEN 0 ELSE PyIndex(Len(g[r]), t.x)
         IN  IF r = 0 \/ c = 0 THEN [ok |-> FALSE, grid |-> g]
             ELSE FillGrid([g EXCEPT ![r][c] = t.char], Tail(ts))

\* "".join(cells)
Join(cells) == Flatten(cells)

\* for y in range(max_y, -1, -1): print("".join(grid[y]))
PrintRows(g, max_y) ==
    [k \in 1..RangeLen(max_y + 1) |-> Line(Join(g[max_y - k + 2]))]

\* Lines 142-144 once the grid is filled, or the IndexError line 140 raised
Finish(g, o, max_y, filled) ==
    IF ~filled.ok
    THEN [grid |-> g, out |-> o, exc |-> "IndexError", buf |-> NoBuf]
    ELSE [grid |-> g, out |-> o \o PrintRows(filled.grid, max_y), exc |-> "none",
          buf |-> filled.grid]

\* Lines 132-144 for the dimensions found
Paint(g, o, max_x, max_y) ==
    Finish(g, o, max_y, FillGrid(EmptyGrid(max_x, max_y), g.triples))

\* Lines 123-144: display_grid once self.grid has been looked up
Render(g, o) ==
    IF g.isNone
    THEN [grid |-> g, out |-> Append(o, MsgNoData), exc |-> "none", buf |-> NoBuf]
    ELSE IF g.triples = <<>>
    \* max() of an empty column is NaN, and range(NaN + 1) raises TypeError
    THEN [grid |-> g, out |-> o, exc |-> "TypeError", buf |-> NoBuf]
    ELSE Paint(g, o, MaxOf(ColX(g.triples)), MaxOf(ColY(g.triples)))

\* display_grid(): self.grid, standard output, the exception raised, the local grid
DisplayGrid(resp, g, o) ==
    IF g.isNone
    THEN Render(GetData(resp, g, o).grid, GetData(resp, g, o).out)
    ELSE Render(g, o)

----------------------------------------------------------------------------
(* verify_public_url *)

Unreachable == [kind |-> "unreachable"]
Status(ok, doc) == [kind |-> "status", ok |-> ok, doc |-> doc]

\* What the network can answer to one GET
Outcomes ==
    {Unreachable} \cup {Status(TRUE, d) : d \in Docs} \cup {Status(FALSE, d) : d \in ErrorDocs}

\* verify_public_url(): self.response, standard output and the value returned
VerifyPublicUrl(resp, o, outcome) ==
    IF outcome.kind = "unreachable"
    THEN [response |-> resp, out |-> Append(o, MsgAccess), ret |-> FALSE]
    ELSE IF ~outcome.ok
    THEN [response |-> Response(FALSE, outcome.doc), out |-> Append(o, MsgAccess),
          ret |-> FALSE]
    ELSE [response |-> Response(TRUE, outcome.doc), out |-> o, ret |-> TRUE]

Bool2Str(b) == IF b THEN "True" ELSE "False"

----------------------------------------------------------------------------
(* The state machine *)

NoUrl == [isStr |-> FALSE, chars |-> <<>>]

Fresh ==
    /\ response = NoResponse
    /\ grid = NoGrid
    /\ buf = NoBuf
    /\ out = <<>>
    /\ outMark = 0
    /\ lastCall = "none"
    /\ verified = "none"
    /\ getLog = <<>>
    /\ calls = 0

\* DecodeSecretMessage(url): __init__ runs the url setter, then clears the fields
Constructed(arg) ==
    /\ urlArg = arg
    /\ exc = UrlCheck(arg)
    /\ phase = IF UrlCheck(arg) = "none" THEN "ready" ELSE "ctor_raised"
    /\ url = IF UrlCheck(arg) = "none" THEN arg ELSE NoUrl
    /\ Fresh

\* The object Main builds at line 151, used by Main or by another caller
Init ==
    /\ caller \in {"Main", "api"}
    /\ mainPc = "verify"
    /\ Constructed(MainUrl)

\* Before construction, with any argument
InitUrl ==
    /\ caller = "api"
    /\ mainPc = "verify"
    /\ phase = "new"
    /\ urlArg \in UrlArgs
    /\ url = NoUrl
    /\ exc = "none"
    /\ Fresh

Construct ==
    /\ phase = "new"
    /\ exc' = UrlCheck(urlArg)
    /\ phase' = IF UrlCheck(urlArg) = "none" THEN "ready" ELSE "ctor_raised"
    /\ url' = IF UrlCheck(urlArg) = "none" THEN urlArg ELSE NoUrl
    /\ UNCHANGED <<caller, mainPc, urlArg, response, grid, buf, out, outMark, lastCall,
                   verified, getLog, calls>>

\* An "api" caller may call the methods in any order, until an exception
\* escapes. verify_public_url is called at most once per object: a run is one
\* construction and the pipeline's single HTTP GET.
ApiMay == phase = "ready" /\ caller = "api" /\ exc = "none" /\ calls < MaxCalls

verify_public_url ==
    /\ ApiMay
    /\ getLog = <<>>
    /\ \E outcome \in Outcomes :
         LET r == VerifyPublicUrl(response, out, outcome)
         IN  /\ response' = r.response
             /\ out' = r.out
             /\ verified' = Bool2Str(r.ret)
    /\ getLog' = Append(getLog, url)
    /\ outMark' = Len(out)
    /\ lastCall' = "verify_public_url"
    /\ calls' = calls + 1
    /\ UNCHANGED <<phase, caller, mainPc, urlArg, url, grid, buf, exc>>

get_data ==
    /\ ApiMay
    /\ LET r == GetData(response, grid, out)
       IN  /\ grid' = r.grid
           /\ out' = r.out
    /\ outMark' = Len(out)
    /\ lastCall' = "get_data"
    /\ calls' = calls + 1
    /\ UNCHANGED <<phase, caller, mainPc, urlArg, url, response, buf, exc, verified,
                   getLog>>

display_grid ==
    /\ ApiMay
    /\ LET r == DisplayGrid(response, grid, out)
       IN  /\ grid' = r.grid
           /\ out' = r.out
           /\ exc' = r.exc
           /\ buf' = r.buf
    /\ outMark' = Len(out)
    /\ lastCall' = "display_grid"
    /\ calls' = calls + 1
    /\ UNCHANGED <<phase, caller, mainPc, urlArg, url, response, verified, getLog>>

\* Main, lines 155-156: verify, and on False raise ValueError, which the
\* handler of lines 162-164 reports
MainVerify ==
    /\ phase = "ready" /\ caller = "Main" /\ mainPc = "verify"
    /\ \E outcome \in Outcomes :
         LET r == VerifyPublicUrl(response, out, outcome)
         IN  /\ response' = r.response
             /\ verified' = Bool2Str(r.ret)
             /\ out' = IF r.ret THEN r.out ELSE r.out \o <<MsgMainError, MsgMainHint>>
             /\ mainPc' = IF r.ret THEN "get_data" ELSE "done"
    /\ getLog' = Append(getLog, url)
    /\ outMark' = Len(out)
    /\ lastCall' = "verify_public_url"
    /\ calls' = calls + 1
    /\ UNCHANGED <<phase, caller, urlArg, url, grid, buf, exc>>

\* Main, line 159
MainGetData ==
    /\ phase = "ready" /\ caller = "Main" /\ mainPc = "get_data"
    /\ LET r == GetData(response, grid, out)
       IN  /\ grid' = r.grid
           /\ out' = r.out
    /\ mainPc' = "display_grid"
    /\ outMark' = Len(out)
    /\ lastCall' = "get_data"
    /\ calls' = calls + 1
    /\ UNCHANGED <<phase, caller, urlArg, url, response, buf, exc, verified, getLog>>

\* Main, line 160, and the handler of lines 165-167 for what display_grid raises
MainDisplay ==
    /\ phase = "ready" /\ caller = "Main" /\ mainPc = "display_grid"
    /\ LET r == DisplayGrid(response, grid, out)
       IN  /\ grid' = r.grid
           /\ exc' = r.exc
           /\ buf' = r.buf
           /\ out' = IF r.exc = "none" THEN r.out
                     ELSE r.out \o <<MsgUnexpected, MsgDetails>>
    /\ mainPc' = "done"
    /\ outMark' = Len(out)
    /\ lastCall' = "display_grid"
    /\ calls' = calls + 1
    /\ UNCHANGED <<phase, caller, urlArg, url, response, verified, getLog>>

Next ==
    \/ verify_public_url
    \/ get_data
    \/ display_grid
    \/ MainVerify
    \/ MainGetData
    \/ MainDisplay

Spec == Init /\ [][Next]_vars

\* Construction with any argument, followed by the fetch
NextUrl ==
    \/ Construct
    \/ verify_public_url

SpecUrl == InitUrl /\ [][NextUrl]_vars

----------------------------------------------------------------------------
(* Vocabulary of the properties *)

\* What the last method call printed
NewOut == SubSeq(out, outMark + 1, Len(out))

IsRowLine(e) == e.kind = "row"

\* The grid lines among printed lines
RowLines(lines) == SelectSeq(lines, IsRowLine)

Count(lines, m) == Cardinality({i \in 1..Len(lines) : lines[i] = m})

\* display_grid was the last call and it worked on a non-empty triple list
Rendered == lastCall = "display_grid" /\ ~grid.isNone /\ grid.triples # <<>>

NonNegative(ts) == \A i \in 1..Len(ts) : ts[i].x >= 0 /\ ts[i].y >= 0

SameCoord(a, b) == a.x = b.x /\ a.y = b.y

Distinct(ts) == \A i, j \in 1..Len(ts) : i # j => ~SameCoord(ts[i], ts[j])

At(ts, x, y) == {i \in 1..Len(ts) : ts[i].x = x /\ ts[i].y = y}

LastAt(ts, x, y) == CHOOSE i \in At(ts, x, y) : \A j \in At(ts, x, y) : j <= i

LargestX(ts) == CHOOSE m \in {ts[i].x : i \in 1..Len(ts)} : \A i \in 1..Len(ts) : ts[i].x <= m
LargestY(ts) == CHOOSE m \in {ts[i].y : i \in 1..Len(ts)} : \A i \in 1..Len(ts) : ts[i].y <= m

\* The character the specification puts at column x of row y
WantedCell(ts, x, y) == IF At(ts, x, y) = {} THEN Space ELSE ts[LastAt(ts, x, y)].char

\* Row y as the specification prints it: columns 0..max_x side by side
WantedLine(ts, y) == Flatten([c \in 1..(LargestX(ts) + 1) |-> WantedCell(ts, c - 1, y)])

----------------------------------------------------------------------------
\* C1: for a non-empty triple list with pairwise distinct non-negative
\* coordinates, display_grid builds a grid of (max_y+1) x (max_x+1) cells in
\* which the cell at row y (from the bottom) and column x holds c for every
\* triple (x, y, c), and every other cell holds a single space.
C1_SparseToDense ==
    (Rendered /\ NonNegative(grid.triples) /\ Distinct(grid.triples)) =>
        /\ exc = "none"
        /\ Len(buf) = LargestY(grid.triples) + 1
        /\ \A r \in 1..Len(buf) : Len(buf[r]) = LargestX(grid.triples) + 1
        /\ \A i \in 1..Len(grid.triples) :
              buf[grid.triples[i].y + 1][grid.triples[i].x + 1] = grid.triples[i].char
        /\ \A r \in 1..Len(buf) : \A c \in 1..Len(buf[r]) :
              At(grid.triples, c - 1, r - 1) = {} => buf[r][c] = Space

\* A rendered list of two or more distinct triples that leaves a cell unspecified
C1_Witness ==
    /\ Rendered /\ NonNegative(grid.triples) /\ Distinct(grid.triples)
    /\ Len(grid.triples) >= 2
    /\ \E r \in 1..Len(buf) : \E c \in 1..Len(buf[r]) : At(grid.triples, c - 1, r - 1) = {}

\* C2: for every non-empty triple list, display_grid prints exactly max_y+1
\* lines, and the k-th (k = 0 first) is the row y = max_y - k with its columns
\* in ascending x order.
C2_RowsTopDown ==
    Rendered =>
        /\ Len(RowLines(NewOut)) = LargestY(grid.triples) + 1
        /\ \A k \in 1..Len(RowLines(NewOut)) :
              RowLines(NewOut)[k].chars
                  = WantedLine(grid.triples, LargestY(grid.triples) - (k - 1))

\* C3: when triples share a coordinate, the character shown there in the
\* rendered output is that of the triple that comes last in document order.
C3_LastWriteWins ==
    (Rendered /\ exc = "none") =>
        \A i, j \in 1..Len(grid.triples) :
            ( /\ i < j
              /\ SameCoord(grid.triples[i], grid.triples[j])
              /\ grid.triples[i].x >= 0 /\ grid.triples[i].y >= 0 ) =>
            buf[grid.triples[i].y + 1][grid.triples[i].x + 1]
                = WantedCell(grid.triples, grid.triples[i].x, grid.triples[i].y)

\* C4: given an empty triple list (a table with zero valid rows), display_grid
\* prints no grid line and reports "No data to display." without raising.
C4_EmptyIsNoData ==
    (lastCall = "display_grid" /\ ~grid.isNone /\ grid.triples = <<>>) =>
        /\ exc = "none"
        /\ RowLines(NewOut) = <<>>
        /\ Count(NewOut, MsgNoData) = 1

\* The rows get_data is to turn into triples: after the header, at least three
\* cells, cell 1 and cell 3 integers
Accepted(rows) ==
    {i \in 2..Len(rows) :
        Len(rows[i]) >= 3 /\ ParseInt(rows[i][1]).ok /\ ParseInt(rows[i][3]).ok}

\* Rows with three cells whose coordinate is not an integer
Rejected(rows) ==
    {i \in 2..Len(rows) :
        Len(rows[i]) >= 3 /\ ~(ParseInt(rows[i][1]).ok /\ ParseInt(rows[i][3]).ok)}

\* The k-th smallest member of a set of row positions
Nth(S, k) == CHOOSE i \in S : Cardinality({j \in S : j <= i}) = k

\* The triple the specification reads from one row
WantedTriple(cells) ==
    Triple(ParseInt(Strip(cells[1])).val, ParseInt(Strip(cells[3])).val, Strip(cells[2]))

\* C5: get_data's triple list is, in document order, one triple (int of
\* trimmed cell 1, int of trimmed cell 3, trimmed cell 2) per row after the
\* header that has at least three cells and integer coordinates; a row with a
\* non-integer coordinate is skipped with one diagnostic and parsing goes on.
C5_TripleList ==
    /\ ~grid.isNone =>
          /\ ResponseTruthy(response) /\ response.doc.hasTable
          /\ LET rows == response.doc.rows
                 acc  == Accepted(rows)
             IN  /\ Len(grid.triples) = Cardinality(acc)
                 /\ \A k \in 1..Len(grid.triples) :
                       grid.triples[k] = WantedTriple(rows[Nth(acc, k)])
    /\ (lastCall = "get_data" /\ ResponseTruthy(response) /\ response.doc.hasTable) =>
          /\ ~grid.isNone
          /\ exc = "none"
          /\ Len(NewOut) = Cardinality(Rejected(response.doc.rows))
          /\ \A k \in 1..Len(NewOut) : NewOut[k] = MsgParse

\* get_data skipped a bad row and still took a row that comes after it
C5_Witness ==
    /\ lastCall = "get_data" /\ ~grid.isNone
    /\ \E i \in Rejected(response.doc.rows) : \E j \in Accepted(response.doc.rows) : i < j
    /\ \E i \in Accepted(response.doc.rows) :
          response.doc.rows[i][1] # Strip(response.doc.rows[i][1])

\* A value the validator is to let through
Acceptable(arg) ==
    /\ arg.isStr
    /\ arg.chars # <<>>
    /\ \E i \in 1..Len(arg.chars) : arg.chars[i] \notin Whitespace
    /\ UrlParse(arg.chars).scheme = T_https
    /\ UrlParse(arg.chars).netloc = T_google

\* C6: the URL validator raises whenever the value is not a string, is empty
\* or all-whitespace, has a scheme other than https or a host other than
\* docs.google.com, and an HTTP GET is issued only for a URL that has passed it.
C6_ValidateBeforeGet ==
    /\ (phase # "new" /\ ~Acceptable(urlArg)) =>
          phase = "ctor_raised" /\ exc \in {"TypeError", "ValueError"} /\ getLog = <<>>
    /\ \A i \in 1..Len(getLog) :
          Acceptable(getLog[i]) /\ getLog[i] = urlArg /\ phase = "ready"

\* "http://docs.google.com" was handed in and rejected, with no GET
C6_Witness ==
    /\ phase = "ctor_raised"
    /\ urlArg = StrVal(T_http \o T_colon \o T_slashes \o T_google)
    /\ getLog = <<>>

\* C7: when the GET cannot complete or returns a non-success status, the
\* failure is reported and no grid line is ever printed in that run, whether
\* the caller stops there (Main) or goes on to get_data / display_grid.
C7_NoOutputAfterFailedFetch ==
    verified = "False" =>
        /\ Count(out, MsgAccess) = 1
        /\ RowLines(out) = <<>>
        /\ grid.isNone
        /\ exc = "none"
        /\ caller = "Main" => mainPc = "done"

\* A 404 whose body has a table, and display_grid called afterwards
C7_Witness ==
    /\ verified = "False"
    /\ ~response.isNone /\ response.doc.hasTable
    /\ lastCall = "display_grid"

\* C8: when the fetched markup has no table, the condition is reported,
\* self.grid stays None, no grid line is printed and nothing is raised, also
\* when display_grid is called after get_data already failed to find a table.
C8_NoTableIsNoData ==
    (ResponseTruthy(response) /\ ~response.doc.hasTable) =>
        /\ grid.isNone
        /\ exc = "none"
        /\ RowLines(out) = <<>>
        /\ lastCall = "get_data" => NewOut = <<MsgNoTable>>
        /\ lastCall = "display_grid" => NewOut = <<MsgNoTable, MsgNoData>>

\* display_grid called after an earlier get_data found no table
C8_Witness ==
    /\ ResponseTruthy(response) /\ ~response.doc.hasTable
    /\ lastCall = "display_grid"
    /\ Count(out, MsgNoTable) = 2

\* C9: every triple get_data puts in the triple list has x >= 0 and y >= 0, so
\* display_grid never writes a cell at a negative index.
C9_NonNegativeCoordinates ==
    ~grid.isNone => NonNegative(grid.triples)

\* C10: every line display_grid prints for a non-empty triple list has exactly
\* max_x+1 characters.
C10_Rectangular ==
    Rendered =>
        \A k \in 1..Len(RowLines(NewOut)) :
            Len(RowLines(NewOut)[k].chars) = LargestX(grid.triples) + 1

====
